---- MODULE Spec2Model ----
(***************************************************************************)
(* A state-machine model of the Uiua runtime of src/src/run.rs: the        *)
(* compiler (words -> instructions, with the peephole rewrites of          *)
(* push_instr), the executor (exec, call_with_span, the primitives' call   *)
(* entries) and the scope / import machinery (in_scope, load_impl, import, *)
(* push_scope_imports, item, binding).                                     *)
(*                                                                         *)
(* The Rust call stack is the variable ctl: one record per activation of a *)
(* function that is waiting for a callee (load_impl, items, in_scope,      *)
(* import, exec, a primitive's run ...).  The value a callee returns is    *)
(* the variable res.  One step of the model is one instruction of exec,    *)
(* one item of items, or one return into a waiting activation.             *)
(***************************************************************************)
EXTENDS Integers, Sequences, FiniteSets, TLC

VARIABLES
    new_functions,   \* Uiua.new_functions : the compiler's stack of instruction buffers
    new_dfns,        \* Uiua.new_dfns      : the compiler's stack of dfn parameter uses
    globals,         \* Uiua.globals
    spans,           \* Uiua.spans (its length; index 0 is Span::Builtin)
    stack,           \* Uiua.stack : the current Scope
    lower_stacks,    \* Uiua.lower_stacks : the saved scopes
    mode,            \* Uiua.mode
    current_imports, \* Uiua.current_imports
    imports,         \* Uiua.imports : path -> Scope
    hasher,          \* the iteration order of the names HashMap (unspecified by std)
    ctl,             \* the activations of the Rust call stack, innermost last
    res,             \* the result the innermost callee has just returned
    loads,           \* number of top-level loads started on this executor
    pushed,          \* history: path -> the value its first successful import pushed
    prev             \* history: the step just taken and the state it started from

vars == <<new_functions, new_dfns, globals, spans, stack, lower_stacks, mode,
          current_imports, imports, hasher, ctl, res, loads, pushed, prev>>

(***************************************************************************)
(* Bounds of the model.                                                    *)
(***************************************************************************)
MaxLoads == 2
\* steps granted to one run of an instruction sequence to its end
MaxSteps == 40
\* words compiled into one instruction buffer by the compiler's own machine
MaxWords == 3

(***************************************************************************)
(* Sequence helpers.                                                       *)
(***************************************************************************)
Last(s) == s[Len(s)]
Front(s) == SubSeq(s, 1, Len(s) - 1)
Rev(s) == [i \in 1..Len(s) |-> s[Len(s) + 1 - i]]
Take(s, n) == SubSeq(s, 1, n)
Drop(s, n) == SubSeq(s, n + 1, Len(s))
Max(S) == CHOOSE m \in S : \A x \in S : x <= m
RECURSIVE Flatten(_)
Flatten(ss) == IF ss = <<>> THEN <<>> ELSE Head(ss) \o Flatten(Tail(ss))
RECURSIVE Product(_)
Product(s) == IF s = <<>> THEN 1 ELSE Head(s) * Product(Tail(s))

(***************************************************************************)
(* Values, functions, instructions.  A Value is an array: an element type, *)
(* a shape and a flat data buffer; a scalar has the empty shape.           *)
(***************************************************************************)
None == {}
Some(x) == {x}
IsSome(o) == o # {}
The(o) == CHOOSE x \in o : TRUE

Num(n) == [ty |-> "num", shape |-> <<>>, data |-> <<[n |-> n]>>]
Str(s) == [ty |-> "char", shape |-> <<>>, data |-> <<[s |-> s]>>]
FuncValue(f) == [ty |-> "func", shape |-> <<>>, data |-> <<[f |-> f]>>]
FuncArray(fs) == [ty |-> "func", shape |-> <<Len(fs)>>,
                  data |-> [i \in 1..Len(fs) |-> [f |-> fs[i]]]]
DefaultValue == [ty |-> "num", shape |-> <<0>>, data |-> <<>>]

IsScalarFunc(v) == v.ty = "func" /\ v.shape = <<>>
IntoScalar(v) == v.data[1].f
IsNat(v) == v.ty = "num" /\ v.shape = <<>> /\ v.data[1].n >= 0

IdMain == [t |-> "Main"]
IdNamed(name) == [t |-> "Named", name |-> name]
IdAnonymous(span) == [t |-> "Anonymous", span |-> span]
IdPrimitive(p) == [t |-> "Primitive", prim |-> p]

Function(id, instrs, dfn_args) == [id |-> id, instrs |-> instrs, dfn_args |-> dfn_args]

Push(v) == [op |-> "Push", val |-> v]
BeginArray == [op |-> "BeginArray"]
EndArray(span) == [op |-> "EndArray", span |-> span]
Prim(p, span) == [op |-> "Prim", prim |-> p, span |-> span]
Call(span) == [op |-> "Call", span |-> span]
DfnVal(n) == [op |-> "DfnVal", n |-> n]
If(if_true, if_false) == [op |-> "If", if_true |-> if_true, if_false |-> if_false]

(***************************************************************************)
(* The primitive library (crate::primitive, outside run.rs): the           *)
(* primitives the model uses, their arities and declared inverses.         *)
(***************************************************************************)
PrimArgs(p) ==
    CASE p \in {"Noop"} -> 0
      [] p \in {"Reverse", "First", "Last", "Not", "Neg", "Call", "Pop", "Dup",
                "Break", "Recur", "Import"} -> 1
      [] OTHER -> 2
PrimOutputs(p) ==
    CASE p \in {"Noop", "Pop", "Break"} -> 0
      [] p \in {"Flip", "Dup"} -> 2
      [] OTHER -> 1
PrimInverse(p) ==
    CASE p \in {"Flip", "Noop", "Reverse", "Not", "Neg"} -> Some(p)
      [] OTHER -> None

\* Primitive::all() filtered to the primitives with a name and no glyph, in order.
NamedPrims == <<"Break", "Recur">>
PrimName(p) == CASE p = "Break" -> "break" [] p = "Recur" -> "recur" [] OTHER -> p
PrimFunction(p) == Function(IdPrimitive(p), <<Prim(p, 0)>>, None)

\* Primitive::from_multiname: a run of primitive shorthand names.
Multinames == [s \in {"flipick", "neg"} |->
                 IF s = "flipick" THEN <<"Flip", "Pick">> ELSE <<"Neg">>]
from_multiname(s) == IF s \in DOMAIN Multinames THEN Some(Multinames[s]) ELSE None

\* Ident::is_functiony: the lexer's classification of a bound name.
is_functiony(name) == name \in {"F", "G"}

(***************************************************************************)
(* Scope::default and the names HashMap.                                   *)
(***************************************************************************)
MapInsert(m, k, v) == [x \in DOMAIN m \cup {k} |-> IF x = k THEN v ELSE m[x]]

DefaultNames == [name \in {PrimName(NamedPrims[i]) : i \in 1..Len(NamedPrims)} |->
                   (CHOOSE i \in 1..Len(NamedPrims) : PrimName(NamedPrims[i]) = name) - 1]

DefaultScope == [value |-> <<>>, anti |-> <<>>, array |-> <<>>, dfn |-> <<>>,
                 call |-> <<>>, names |-> DefaultNames]

InitGlobals == [i \in 1..Len(NamedPrims) |-> FuncValue(PrimFunction(NamedPrims[i]))]

\* globals[idx] for a 0-based index, as the code indexes the Vec.
Global(gl, idx) == gl[idx + 1]

(***************************************************************************)
(* Errors (crate::UiuaError).  A message is its format string and the      *)
(* number or text formatted into it.                                       *)
(***************************************************************************)
RunError(fmt, n, s) ==
    [kind |-> "Run", fmt |-> fmt, n |-> n, s |-> s, traced |-> FALSE, trace |-> <<>>]
BreakError(n) ==
    [kind |-> "Break", fmt |-> "break", n |-> n, s |-> "", traced |-> FALSE, trace |-> <<>>]
ParseError ==
    [kind |-> "Parse", fmt |-> "parse errors", n |-> 0, s |-> "", traced |-> FALSE, trace |-> <<>>]

(***************************************************************************)
(* The parser's output (crate::ast): words and items.                      *)
(***************************************************************************)
WNumber(n) == [w |-> "Number", n |-> n]
WString(s) == [w |-> "String", s |-> s]
WIdent(name) == [w |-> "Ident", name |-> name]
WStrand(its) == [w |-> "Strand", items |-> its]
WArray(its) == [w |-> "Array", items |-> its]
WFunc(label, body) == [w |-> "Func", id |-> IdAnonymous(label), body |-> body]
WDfn(label, body) == [w |-> "Dfn", id |-> IdAnonymous(label), body |-> body]
WPrimitive(p) == [w |-> "Primitive", prim |-> p]
WModified(p, ws) == [w |-> "Modified", modifier |-> p, words |-> ws]
WSpaces == [w |-> "Spaces"]

Scoped(its, test) == [item |-> "Scoped", items |-> its, test |-> test]
Words(ws) == [item |-> "Words", words |-> ws]
Binding(name, ws) == [item |-> "Binding", name |-> name, words |-> ws]
Newlines == [item |-> "Newlines"]

Alphabet == <<"a", "b", "c", "d", "e", "f", "g", "h", "i", "j", "k", "l", "m",
              "n", "o", "p", "q", "r", "s", "t", "u", "v", "w", "x", "y", "z">>
IsAsciiLowercaseLetter(name) == \E i \in 1..Len(Alphabet) : Alphabet[i] = name
LetterIndex(name) == (CHOOSE i \in 1..Len(Alphabet) : Alphabet[i] = name) - 1

(***************************************************************************)
(* The compiler.  The compile state C holds the fields of Uiua the         *)
(* compiler reads and writes, and err, the error a `?` is propagating:     *)
(* once err is set every later compile step is skipped, as the early       *)
(* returns of the code skip them (the buffers they would pop stay pushed). *)
(***************************************************************************)
CompileState(nf, nd, sp, names, gl) ==
    [new_functions |-> nf, new_dfns |-> nd, spans |-> sp, names |-> names,
     globals |-> gl, err |-> None]

Failed(C) == IsSome(C.err)
add_span(C) == [C EXCEPT !.spans = @ + 1]

IsPrimInstr(i, p) == i.op = "Prim" /\ i.prim = p

\* The fused instruction with its operands exchanged.
fuse_if_swapped(if_true, if_false) == If(IntoScalar(if_false), IntoScalar(if_true))

\* The instruction the "Call pick = if" arm pushes for the two Push operands.
fuse_if(if_true, if_false) == If(IntoScalar(if_true), IntoScalar(if_false))

\* push_instr without its rewrites: the instruction is appended.
push_instr_append(instrs, instr) == Append(instrs, instr)

\* push_instr's match on the buffer (instrs) and the appended instruction.
push_instr(instrs, instr) ==
    LET n == Len(instrs) IN
    IF /\ IsPrimInstr(instr, "Call")
       /\ n >= 6
       /\ instrs[n - 5].op = "BeginArray"
       /\ instrs[n - 4].op = "Push"
       /\ instrs[n - 3].op = "Push"
       /\ instrs[n - 2].op = "EndArray"
       /\ IsPrimInstr(instrs[n - 1], "Flip")
       /\ IsPrimInstr(instrs[n], "Pick")
    THEN LET if_true == instrs[n - 4].val
             if_false == instrs[n - 3].val
         IN IF IsScalarFunc(if_true) /\ IsScalarFunc(if_false)
            THEN Append(Take(instrs, n - 6), fuse_if(if_true, if_false))
            ELSE Append(instrs, instr)
    ELSE IF instr.op = "Prim" /\ n >= 1 /\ instrs[n].op = "Prim"
    THEN LET top == instrs[n].prim
             new == instr.prim
         IN CASE top = "Reverse" /\ new = "First" ->
                   [instrs EXCEPT ![n] = Prim("Last", instrs[n].span)]
              [] top = "Reverse" /\ new = "Last" ->
                   [instrs EXCEPT ![n] = Prim("First", instrs[n].span)]
              [] /\ ~(top = "Reverse" /\ new \in {"First", "Last"})
                 /\ PrimArgs(top) = PrimOutputs(top)
                 /\ PrimArgs(new) = PrimOutputs(new)
                 /\ PrimInverse(top) = Some(new) ->
                   Front(instrs)
              [] OTHER -> Append(instrs, instr)
    ELSE IF IsPrimInstr(instr, "Noop")
    THEN instrs
    ELSE Append(instrs, instr)

PushInstr(C, instr) ==
    IF Failed(C) THEN C
    ELSE [C EXCEPT !.new_functions[Len(C.new_functions)] = push_instr(@, instr)]

\* `With(e, LAMBDA x : body)` is `let x = e; body`.
With(e, F(_)) == F(e)

primitive(C, p, call) ==
    IF Failed(C) THEN C
    ELSE IF call THEN PushInstr(add_span(C), Prim(p, C.spans))
    ELSE PushInstr(add_span(C),
                   Push(FuncValue(Function(IdPrimitive(p), <<Prim(p, C.spans)>>, None))))

RECURSIVE primitives(_, _, _)
\* ident's loop over from_multiname's primitives, last first.
primitives(C, ps, call) ==
    IF ps = <<>> THEN C ELSE primitives(primitive(C, Last(ps), call), Front(ps), call)

ident(C, name, call) ==
    IF name \in DOMAIN C.names
    THEN With(PushInstr(C, Push(Global(C.globals, C.names[name]))), LAMBDA C1 :
           IF Global(C.globals, C.names[name]).ty = "func" /\ call
           THEN PushInstr(add_span(C1), Call(C1.spans))
           ELSE C1)
    ELSE IF IsSome(from_multiname(name))
    THEN primitives(C, The(from_multiname(name)), call)
    ELSE IF C.new_dfns # <<>> /\ IsAsciiLowercaseLetter(name)
    THEN PushInstr([C EXCEPT !.new_dfns[Len(C.new_dfns)] = Append(@, LetterIndex(name))],
                   DfnVal(LetterIndex(name)))
    ELSE [C EXCEPT !.err = Some(RunError("unknown identifier {}", 0, name))]

\* compile_words after its call of words: the popped buffer, or the error.
compile_result(C) ==
    IF Failed(C) THEN [C |-> C, instrs |-> <<>>]
    ELSE [C |-> [C EXCEPT !.new_functions = Front(@)], instrs |-> Last(C.new_functions)]

\* func after compile_words: the eta-collapse, or the wrapped function.
func_push(r, id) ==
    IF Failed(r.C) THEN r.C
    ELSE IF /\ Len(r.instrs) = 2
            /\ r.instrs[1].op = "Push"
            /\ r.instrs[2].op = "Call"
            /\ r.instrs[1].val.ty = "func"
    THEN PushInstr(r.C, Push(r.instrs[1].val))
    ELSE PushInstr(r.C, Push(FuncValue(Function(id, r.instrs, None))))

dfn_size(refs) == IF refs = <<>> THEN 0 ELSE Max({refs[i] : i \in 1..Len(refs)}) + 1

\* dfn after compile_words: pop the parameter uses, push the function, call it.
dfn_push(r, id, call) ==
    IF Failed(r.C) THEN r.C
    ELSE With(PushInstr(add_span([r.C EXCEPT !.new_dfns = Front(@)]),
                        Push(FuncValue(Function(id, r.instrs,
                                                Some(dfn_size(Last(r.C.new_dfns))))))),
              LAMBDA C4 : IF call THEN PushInstr(C4, Call(r.C.spans)) ELSE C4)

\* modified after its words and its modifier are compiled into the sub-buffer.
modified_push(C3, modifier, call) ==
    IF Failed(C3) THEN C3
    ELSE With(PushInstr([C3 EXCEPT !.new_functions = Front(@)],
                        Push(FuncValue(Function(IdAnonymous(modifier),
                                                Last(C3.new_functions), None)))),
              LAMBDA C5 : IF call THEN PushInstr(add_span(C5), Call(C5.spans)) ELSE C5)

\* Strand and Array after their items: the EndArray.
end_array(C1) == IF Failed(C1) THEN C1 ELSE PushInstr(add_span(C1), EndArray(C1.spans))

RECURSIVE words(_, _, _)
\* words, with word, compile_words, func, dfn and modified written into it.
words(C, ws, call) ==
    IF ws = <<>> \/ Failed(C) THEN C
    ELSE words(
           With(Last(ws), LAMBDA w :
             CASE w.w = "Number" -> PushInstr(C, Push(Num(w.n)))
               [] w.w = "String" -> PushInstr(C, Push(Str(w.s)))
               [] w.w = "Ident" -> ident(C, w.name, call)
               [] w.w = "Strand" -> end_array(words(PushInstr(C, BeginArray), w.items, FALSE))
               [] w.w = "Array" -> end_array(words(PushInstr(C, BeginArray), w.items, TRUE))
               [] w.w = "Func" ->
                    func_push(compile_result(
                        words([C EXCEPT !.new_functions = Append(@, <<>>)], w.body, TRUE)),
                        w.id)
               [] w.w = "Dfn" ->
                    dfn_push(compile_result(
                        words([C EXCEPT !.new_dfns = Append(@, <<>>),
                                        !.new_functions = Append(@, <<>>)], w.body, TRUE)),
                        w.id, call)
               [] w.w = "Primitive" -> primitive(C, w.prim, call)
               [] w.w = "Modified" ->
                    modified_push(
                        primitive(words([C EXCEPT !.new_functions = Append(@, <<>>)],
                                        w.words, FALSE),
                                  w.modifier, TRUE),
                        w.modifier, call)
               [] OTHER -> C),
           Front(ws), call)

compile_words(C, ws) ==
    compile_result(words([C EXCEPT !.new_functions = Append(@, <<>>)], ws, TRUE))

(***************************************************************************)
(* The machine: the fields of Uiua plus the Rust call stack (ctl) and the  *)
(* result register (res).  The operators below are the functions of        *)
(* run.rs as state transformers on this record.                            *)
(***************************************************************************)
ResNone == [st |-> "none"]
ResOk == [st |-> "ok"]
ResScope(scope) == [st |-> "ok", scope |-> scope]
\* History: the Ok a primitive returns after call_catch_break caught a break.
ResCaught == [st |-> "ok", caught |-> TRUE]

Ok(M) == IF M.res.st = "panic" THEN M ELSE [M EXCEPT !.res = ResOk]
\* A panic (an unwrap of None, an index or split_off out of range) aborts the process.
Panic(M, msg) == [M EXCEPT !.res = [st |-> "panic", msg |-> msg]]

TraceFrame(id, span) == [id |-> id, span |-> span]

\* The entries the specification expects one unwound call frame to yield:
\* its pending primitive spans, then the frame itself.
RECURSIVE PendingPrims(_)
PendingPrims(sps) ==
    IF sps = <<>> THEN <<>>
    ELSE (IF IsSome(Head(sps).prim)
          THEN <<TraceFrame(IdPrimitive(The(Head(sps).prim)), Head(sps).span)>>
          ELSE <<>>) \o PendingPrims(Tail(sps))
FrameTrace(frame) ==
    PendingPrims(frame.spans) \o <<TraceFrame(frame.function.id, frame.call_span)>>

\* History: the frames of the exec activations in progress, innermost first,
\* each in the scope its activation runs in.
RECURSIVE ActiveFrames(_, _, _)
ActiveFrames(M, i, scope) ==
    IF i = 0 THEN <<>>
    ELSE LET a == M.ctl[i] IN
         CASE a.k = "exec" ->
                (IF a.ret_height < Len(scope.call)
                 THEN <<FrameTrace(scope.call[a.ret_height + 1])>>
                 ELSE <<>>) \o ActiveFrames(M, i - 1, scope)
           [] a.k = "in_scope" ->
                ActiveFrames(M, i - 1, M.lower_stacks[a.entry_depth + 1])
           [] OTHER -> ActiveFrames(M, i - 1, scope)

\* An error value is created: res carries it, with (history) the frames it is
\* about to unwind and the number of exec activations it has left so far.
Raise(M, e) ==
    [M EXCEPT !.res = [st |-> "err", err |-> e,
                       expect |-> ActiveFrames(M, Len(M.ctl), M.stack),
                       unwound |-> 0]]

trace_error(error, frame) ==
    LET frames == PendingPrims(frame.spans)
                    \o <<TraceFrame(frame.function.id, frame.call_span)>>
    IN IF error.traced
       THEN [error EXCEPT !.trace = @ \o frames]
       ELSE [error EXCEPT !.traced = TRUE, !.trace = frames]

RECURSIVE TraceAll(_, _)
\* exec's loop over the frames split off the call stack, in Vec order.
TraceAll(error, frames) ==
    IF frames = <<>> THEN error
    ELSE TraceAll(trace_error(error, Head(frames)), Tail(frames))

span_index(M) ==
    IF M.stack.call = <<>> THEN 0
    ELSE LET frame == Last(M.stack.call)
         IN IF frame.spans = <<>> THEN frame.call_span ELSE Last(frame.spans).span

error(M, fmt, n, s) == RunError(fmt, n, s)

push(M, val) == [M EXCEPT !.stack.value = Append(@, val)]

\* Uiua::pop: the popped value, or the empty-stack error.
pop(M, arg) ==
    IF M.stack.value = <<>>
    THEN [ok |-> FALSE,
          M |-> Raise(M, error(M, "Stack was empty when evaluating {}", 0, arg))]
    ELSE [ok |-> TRUE, val |-> Last(M.stack.value),
          M |-> [M EXCEPT !.stack.value = Front(@)]]

push_span(M, span, prim) ==
    IF M.stack.call = <<>> THEN Panic(M, "push_span: call stack is empty")
    ELSE [M EXCEPT !.stack.call[Len(M.stack.call)].spans =
                       Append(@, [span |-> span, prim |-> prim])]
pop_span(M) ==
    IF M.stack.call = <<>> THEN Panic(M, "pop_span: call stack is empty")
    ELSE [M EXCEPT !.stack.call[Len(M.stack.call)].spans =
                       IF @ = <<>> THEN @ ELSE Front(@)]

(***************************************************************************)
(* The value library (crate::value, outside run.rs).                       *)
(***************************************************************************)
from_row_values(values) ==
    IF values = <<>> THEN [ok |-> TRUE, val |-> DefaultValue]
    ELSE IF \A i \in 1..Len(values) :
               values[i].ty = values[1].ty /\ values[i].shape = values[1].shape
    THEN [ok |-> TRUE,
          val |-> [ty |-> values[1].ty,
                   shape |-> <<Len(values)>> \o values[1].shape,
                   data |-> Flatten([i \in 1..Len(values) |-> values[i].data])]]
    ELSE [ok |-> FALSE]

\* The row of an array at a 0-based index.
Row(arr, n) ==
    LET rl == Product(Tail(arr.shape))
    IN [ty |-> arr.ty, shape |-> Tail(arr.shape),
        data |-> SubSeq(arr.data, n * rl + 1, (n + 1) * rl)]

(***************************************************************************)
(* push_scope_imports.  The names map is iterated in the HashMap's order,  *)
(* which std leaves unspecified: by global index, ascending or descending, *)
(* as the variable hasher says.                                            *)
(***************************************************************************)
RECURSIVE NamesByIndex(_, _)
NamesByIndex(names, S) ==
    IF S = {} THEN <<>>
    ELSE LET k == CHOOSE x \in S : \A y \in S : names[x] <= names[y]
         IN <<k>> \o NamesByIndex(names, S \ {k})
IterNames(names, h) ==
    IF h = "asc" THEN NamesByIndex(names, DOMAIN names)
    ELSE Rev(NamesByIndex(names, DOMAIN names))

ImportedFunction(gl, name, i) ==
    LET value == Global(gl, i)
    IN IF IsScalarFunc(value) THEN IntoScalar(value)
       ELSE Function(IdNamed(name), <<Push(value)>>, None)

push_scope_imports(M, scope) ==
    LET order == IterNames(scope.names, M.hasher)
        functions == [j \in 1..Len(order) |->
                        ImportedFunction(M.globals, order[j], scope.names[order[j]])]
    IN push(M, FuncArray(functions))

(***************************************************************************)
(* exec and call_with_span.                                                *)
(***************************************************************************)
StackFrame(function, call_span, is_dfn) ==
    [function |-> function, call_span |-> call_span, pc |-> 0, spans |-> <<>>,
     dfn |-> is_dfn]
DfnFrame(function, args) == [function |-> function, args |-> args]

\* exec's entry: record the return height and push the frame.  entry_value is
\* history: the value stack when the call that made this frame began.
exec(M, frame, entry_value) ==
    [M EXCEPT !.ctl = Append(@, [k |-> "exec", ret_height |-> Len(M.stack.call),
                                 entry_value |-> entry_value,
                                 entry_dfn |-> Len(M.stack.dfn)]),
              !.stack.call = Append(@, frame)]

\* The arguments a dfn call drains from the value stack: the last n, reversed.
dfn_args_of(value, n) == Rev(SubSeq(value, Len(value) - n + 1, Len(value)))

\* call_with_span's branch for a popped value that is not a scalar function.
call_non_function(M, value) ==
    push([M EXCEPT !.stack.value = IF @ = <<>> THEN @ ELSE Front(@)], value)

\* call_with_span's error return with the value stack emptied, as if the
\* arguments were drained before they were counted.
not_enough_arguments_drained(M, n) ==
    Raise([M EXCEPT !.stack.value = <<>>],
          RunError("not enough arguments for dfn of {n} values", n, ""))

\* call_with_span's error return for a dfn called over fewer than n values.
not_enough_arguments(M, n) ==
    Raise(M, RunError("not enough arguments for dfn of {n} values", n, ""))

call_with_span(M, call_span) ==
    LET p == pop(M, "called function") IN
    IF ~p.ok THEN p.M
    ELSE IF IsScalarFunc(p.val)
    THEN LET f == IntoScalar(p.val) IN
         IF IsSome(f.dfn_args)
         THEN LET n == The(f.dfn_args) IN
              IF Len(p.M.stack.value) < n
              THEN not_enough_arguments(p.M, n)
              ELSE LET args == dfn_args_of(p.M.stack.value, n)
                       M1 == [p.M EXCEPT
                                !.stack.value = Take(@, Len(@) - n),
                                !.stack.dfn = Append(@, DfnFrame(f, args))]
                   IN exec(M1, StackFrame(f, call_span, TRUE), M.stack.value)
         ELSE exec(p.M, StackFrame(f, call_span, FALSE), M.stack.value)
    ELSE Ok(call_non_function(p.M, p.val))

call(M) == call_with_span(M, span_index(M))

recur(M) ==
    IF M.stack.dfn = <<>>
    THEN Raise(M, error(M, "Cannot recur outside of dfn", 0, ""))
    ELSE call(push(M, FuncValue(Last(M.stack.dfn).function)))

(***************************************************************************)
(* Source files: what the IO backend reads and parse() returns for a path. *)
(* (The table Files is defined with the programs, below.)                  *)
(***************************************************************************)
ParsedFile(its) == [items |-> its, errors |-> FALSE]
UnparsableFile == [items |-> <<>>, errors |-> TRUE]

\* in_scope's entry with the new scope starting from the current names map.
in_scope_inherit(M) ==
    [M EXCEPT !.lower_stacks = Append(@, M.stack),
              !.stack = [DefaultScope EXCEPT !.names = M.stack.names],
              !.ctl = Append(@, [k |-> "in_scope",
                                 entry_depth |-> Len(M.lower_stacks),
                                 entry_scope |-> M.stack,
                                 entry_globals |-> Len(M.globals)])]

\* in_scope's entry: save the current scope and install Scope::default().
\* entry_depth, entry_scope and entry_globals (a length) are history.
in_scope(M) ==
    [M EXCEPT !.lower_stacks = Append(@, M.stack),
              !.stack = DefaultScope,
              !.ctl = Append(@, [k |-> "in_scope",
                                 entry_depth |-> Len(M.lower_stacks),
                                 entry_scope |-> M.stack,
                                 entry_globals |-> Len(M.globals)])]

\* load_impl up to its call of items.
load_impl(M, input, path) ==
    IF input.errors THEN Raise(M, ParseError)
    ELSE [M EXCEPT !.current_imports = @ \cup path,
                   !.ctl = @ \o <<[k |-> "load_impl", path |-> path],
                                  [k |-> "items", items |-> input.items,
                                   in_test |-> FALSE]>>]

\* load_impl returning with its path left in current_imports.
load_impl_return_keep(M, a) == [M EXCEPT !.ctl = Front(@)]

\* load_impl after items has returned.
load_impl_return(M, a) ==
    [M EXCEPT !.current_imports = @ \ a.path, !.ctl = Front(@)]

\* import without the cache lookup: the file is loaded on every import.
import_reload(M, input, path) ==
    IF path \in M.current_imports
    THEN Raise(M, error(M, "cycle detected importing {}", 0, path))
    ELSE load_impl(in_scope([M EXCEPT !.ctl = Append(@, [k |-> "import", path |-> path])]),
                   input, Some(path))

\* import up to its call of in_scope (or to its return, for a cycle or a cached path).
import(M, input, path) ==
    IF path \in M.current_imports
    THEN Raise(M, error(M, "cycle detected importing {}", 0, path))
    ELSE IF path \notin DOMAIN M.imports
    THEN LET M1 == [M EXCEPT !.ctl = Append(@, [k |-> "import", path |-> path])]
         IN load_impl(in_scope(M1), input, Some(path))
    ELSE Ok(push_scope_imports(M, M.imports[path]))

\* import after in_scope has returned Ok(scope).
import_return(M, a) ==
    LET M1 == [M EXCEPT !.imports = MapInsert(@, a.path, M.res.scope), !.ctl = Front(@)]
    IN Ok(push_scope_imports(M1, M1.imports[a.path]))

\* import when in_scope returns: the `?`, or the rest of import.
import_resume(M, a) ==
    IF M.res.st = "err" THEN [M EXCEPT !.ctl = Front(@)] ELSE import_return(M, a)

\* in_scope after its closure has returned: the `?`, then the swap back.
in_scope_return(M) ==
    IF M.res.st = "err" THEN [M EXCEPT !.ctl = Front(@)]
    ELSE IF M.lower_stacks = <<>> THEN Panic(M, "in_scope: lower_stacks is empty")
    ELSE [M EXCEPT !.stack = Last(M.lower_stacks),
                   !.lower_stacks = Front(@),
                   !.ctl = Front(@),
                   !.res = ResScope(M.stack)]

(***************************************************************************)
(* The primitives' run (crate::primitive, outside run.rs), on a machine    *)
(* whose current frame already holds the primitive's span.  A primitive    *)
(* that calls back into the runtime leaves an activation on ctl.           *)
(***************************************************************************)
ArgName(n) == IF n = 1 THEN "argument 1" ELSE "argument 2"

\* A primitive of two arguments: f gives [ok, vals] for the popped a and b.
Dyadic(M, f(_, _)) ==
    LET a == pop(M, ArgName(1)) IN
    IF ~a.ok THEN a.M
    ELSE LET b == pop(a.M, ArgName(2)) IN
         IF ~b.ok THEN b.M
         ELSE LET r == f(a.val, b.val) IN
              IF r.ok THEN Ok([b.M EXCEPT !.stack.value = @ \o r.vals])
              ELSE Raise(b.M, error(b.M, r.fmt, r.n, ""))

Monadic(M, f(_)) ==
    LET a == pop(M, ArgName(1)) IN
    IF ~a.ok THEN a.M
    ELSE LET r == f(a.val) IN
         IF r.ok THEN Ok([a.M EXCEPT !.stack.value = @ \o r.vals])
         ELSE Raise(a.M, error(a.M, r.fmt, r.n, ""))

Yield(vals) == [ok |-> TRUE, vals |-> vals]
Fail(fmt, n) == [ok |-> FALSE, fmt |-> fmt, n |-> n]

flip(a, b) == Yield(<<a, b>>)
pick(index, from) ==
    IF ~IsNat(index) THEN Fail("Index must be a list of integers", 0)
    ELSE IF from.shape = <<>> THEN Fail("Cannot pick from a scalar", 0)
    ELSE LET n == index.data[1].n IN
         IF n >= Head(from.shape)
         THEN Fail("Index {n} is out of bounds of length {} (dimension 1) in shape [{}]", n)
         ELSE Yield(<<Row(from, n)>>)
add(a, b) ==
    IF a.ty = "num" /\ b.ty = "num" /\ a.shape = <<>> /\ b.shape = <<>>
    THEN Yield(<<Num(a.data[1].n + b.data[1].n)>>)
    ELSE Fail("Cannot add", 0)
neg(a) ==
    IF a.ty = "num" THEN Yield(<<[a EXCEPT !.data = [i \in 1..Len(@) |-> [n |-> 0 - @[i].n]]]>>)
    ELSE Fail("Cannot negate", 0)
not(a) ==
    IF a.ty = "num" THEN Yield(<<[a EXCEPT !.data = [i \in 1..Len(@) |-> [n |-> 1 - @[i].n]]]>>)
    ELSE Fail("Cannot not", 0)
RowCount(a) == IF a.shape = <<>> THEN 1 ELSE Head(a.shape)
reverse(a) ==
    IF a.shape = <<>> THEN Yield(<<a>>)
    ELSE Yield(<<[a EXCEPT !.data =
                    Flatten([i \in 1..RowCount(a) |-> Row(a, RowCount(a) - i).data])]>>)
first(a) ==
    IF a.shape = <<>> THEN Yield(<<a>>)
    ELSE IF RowCount(a) = 0 THEN Fail("Cannot take first of an empty array", 0)
    ELSE Yield(<<Row(a, 0)>>)
last(a) ==
    IF a.shape = <<>> THEN Yield(<<a>>)
    ELSE IF RowCount(a) = 0 THEN Fail("Cannot take last of an empty array", 0)
    ELSE Yield(<<Row(a, RowCount(a) - 1)>>)
dup(a) == Yield(<<a, a>>)
drop_value(a) == Yield(<<>>)

PrimActivation(p) == [k |-> "prim", prim |-> p]

\* Break: pop n; escape n levels when n > 0.
break(M) ==
    LET a == pop(M, ArgName(1)) IN
    IF ~a.ok THEN a.M
    ELSE IF ~IsNat(a.val) THEN Raise(a.M, error(a.M, "Break must be a natural number", 0, ""))
    ELSE IF a.val.data[1].n > 0 THEN Raise(a.M, BreakError(a.val.data[1].n - 1))
    ELSE Ok(a.M)

\* Repeat: pop the function and the count, then call the function count times
\* through call_catch_break.
repeat(M) ==
    LET f == pop(M, ArgName(1)) IN
    IF ~f.ok THEN f.M
    ELSE LET n == pop(f.M, ArgName(2)) IN
         IF ~n.ok THEN n.M
         ELSE IF ~IsNat(n.val)
         THEN Raise(n.M, error(n.M, "Repetitions must be a natural number", 0, ""))
         ELSE IF n.val.data[1].n = 0 THEN Ok(n.M)
         ELSE LET M1 == [n.M EXCEPT !.ctl = Append(@, [k |-> "prim", prim |-> "Repeat",
                                                        f |-> f.val,
                                                        left |-> n.val.data[1].n - 1])]
              IN call(push(M1, f.val))

prim_run(M, p, files) ==
    CASE p = "Flip" -> Dyadic(M, flip)
      [] p = "Pick" -> Dyadic(M, pick)
      [] p = "Add" -> Dyadic(M, add)
      [] p = "Neg" -> Monadic(M, neg)
      [] p = "Not" -> Monadic(M, not)
      [] p = "Reverse" -> Monadic(M, reverse)
      [] p = "First" -> Monadic(M, first)
      [] p = "Last" -> Monadic(M, last)
      [] p = "Dup" -> Monadic(M, dup)
      [] p = "Pop" -> Monadic(M, drop_value)
      [] p = "Noop" -> Ok(M)
      [] p = "Break" -> break(M)
      [] p = "Call" -> call([M EXCEPT !.ctl = Append(@, PrimActivation(p))])
      [] p = "Recur" -> recur([M EXCEPT !.ctl = Append(@, PrimActivation(p))])
      [] p = "Repeat" -> repeat(M)
      [] p = "Import" ->
           LET a == pop(M, ArgName(1)) IN
           IF ~a.ok THEN a.M
           ELSE IF a.val.ty # "char"
           THEN Raise(a.M, error(a.M, "Import path must be a string", 0, ""))
           ELSE LET path == a.val.data[1].s IN
                IF path \notin DOMAIN files
                THEN Raise(a.M, error(a.M, "cannot read {}", 0, path))
                ELSE import([a.M EXCEPT !.ctl = Append(@, PrimActivation(p))],
                            files[path], path)

\* call_catch_break, on the result of its call.
call_catch_break(M) ==
    IF M.res.st = "ok" THEN [broke |-> FALSE, M |-> Ok(M)]
    ELSE IF M.res.err.kind = "Break"
    THEN IF M.res.err.n = 0 THEN [broke |-> TRUE, M |-> Ok(M)]
         ELSE [broke |-> FALSE, M |-> Raise(M, BreakError(M.res.err.n - 1))]
    ELSE [broke |-> FALSE, M |-> M]

\* A primitive's run after the call it made has returned; then the pop_span of
\* exec's Prim arm when run returned Ok.
prim_return(M, a) ==
    LET M0 == [M EXCEPT !.ctl = Front(@)] IN
    IF a.prim = "Repeat"
    THEN LET c == call_catch_break(M0) IN
         IF c.M.res.st = "err" THEN c.M
         ELSE IF c.broke THEN [Ok(pop_span(c.M)) EXCEPT !.res = ResCaught]
         ELSE IF a.left = 0 THEN Ok(pop_span(c.M))
         ELSE LET M1 == [c.M EXCEPT !.ctl = Append(@, [a EXCEPT !.left = @ - 1]),
                                    !.res = ResNone]
              IN call(push(M1, a.f))
    ELSE IF M0.res.st = "err" THEN M0
    ELSE Ok(pop_span(M0))

(***************************************************************************)
(* exec's loop.                                                            *)
(***************************************************************************)
\* Instr::If with the if_true function taken for every condition.
if_branch_true(instr, condition) == instr.if_true

\* Instr::If with the two functions exchanged.
if_branch_swapped(instr, condition) ==
    IF condition = 0 THEN instr.if_true ELSE instr.if_false

\* Instr::If: the function pushed and called for condition 0 or 1.
if_branch(instr, condition) == IF condition = 0 THEN instr.if_false ELSE instr.if_true

\* EndArray's rows in the order the values were pushed.
array_rows_in_order(value, start) == Drop(value, start)

\* EndArray's rows: the values above the recorded depth, last pushed first.
array_rows(value, start) == Rev(Drop(value, start))

\* The instruction arms of exec's match.
run_instr(M, instr, files) ==
    CASE instr.op = "Push" -> Ok(push(M, instr.val))
      [] instr.op = "BeginArray" ->
           Ok([M EXCEPT !.stack.array = Append(@, Len(M.stack.value))])
      [] instr.op = "EndArray" ->
           IF M.stack.array = <<>> THEN Panic(M, "EndArray: array stack is empty")
           ELSE LET start == Last(M.stack.array)
                    M1 == [M EXCEPT !.stack.array = Front(@)]
                IN IF start > Len(M1.stack.value)
                   THEN Raise(M1, error(M1, "Array removed elements", 0, ""))
                   ELSE LET values == array_rows(M1.stack.value, start)
                            M2 == [M1 EXCEPT !.stack.value = Take(@, start)]
                            M3 == push_span(M2, instr.span, None)
                            r == from_row_values(values)
                        IN IF ~r.ok
                           THEN Raise(M3, error(M3, "Cannot combine arrays", 0, ""))
                           ELSE Ok(push(pop_span(M3), r.val))
      [] instr.op = "Prim" ->
           LET M1 == push_span(M, instr.span, Some(instr.prim))
               M2 == prim_run(M1, instr.prim, files)
           IN IF M2.res.st = "ok" /\ Len(M2.ctl) = Len(M.ctl) THEN Ok(pop_span(M2))
              ELSE M2
      [] instr.op = "Call" -> call_with_span(M, instr.span)
      [] instr.op = "DfnVal" ->
           IF M.stack.dfn = <<>> THEN Panic(M, "DfnVal: dfn stack is empty")
           ELSE IF instr.n >= Len(Last(M.stack.dfn).args)
           THEN Panic(M, "DfnVal: argument index out of bounds")
           ELSE Ok(push(M, Last(M.stack.dfn).args[instr.n + 1]))
      [] instr.op = "If" ->
           LET v == pop(M, ArgName(2)) IN
           IF ~v.ok THEN v.M
           ELSE IF ~IsNat(v.val)
           THEN Raise(v.M, error(v.M, "Index must be a list of integers", 0, ""))
           ELSE LET condition == v.val.data[1].n IN
                CASE condition \in {0, 1} ->
                       call(push(v.M, FuncValue(if_branch(instr, condition))))
                  [] OTHER ->
                       Raise(v.M, error(v.M,
                           "Index {n} is out of bounds of length 2 (dimension 1) in shape [2]",
                           condition, ""))

\* exec's error arm without the split_off: the frames stay on the call stack.
exec_unwind_keep(call_stack, ret_height, err) ==
    [call |-> call_stack, err |-> TraceAll(err, Drop(call_stack, ret_height))]

\* exec's error arm: split the frames above the return height off the call
\* stack and thread the error through trace_error for each.
exec_unwind(call_stack, ret_height, err) ==
    [call |-> Take(call_stack, ret_height),
     err |-> TraceAll(err, Drop(call_stack, ret_height))]

\* exec after the instruction's result is known, going two instructions on.
exec_result_skip(M) ==
    LET a == Last(M.ctl) IN
    IF M.res.st = "err"
    THEN IF a.ret_height > Len(M.stack.call)
         THEN Panic(M, "split_off: index out of bounds")
         ELSE LET u == exec_unwind(M.stack.call, a.ret_height, M.res.err)
              IN [M EXCEPT !.stack.call = u.call,
                           !.ctl = Front(@),
                           !.res.err = u.err,
                           !.res.unwound = @ + 1]
    ELSE IF M.stack.call = <<>> THEN Panic(M, "exec: call stack is empty")
    ELSE [M EXCEPT !.stack.call[Len(M.stack.call)].pc = @ + 2,
                   !.res = ResNone]

\* exec after the instruction's result is known.
exec_result(M) ==
    LET a == Last(M.ctl) IN
    IF M.res.st = "err"
    THEN IF a.ret_height > Len(M.stack.call)
         THEN Panic(M, "split_off: index out of bounds")
         ELSE LET u == exec_unwind(M.stack.call, a.ret_height, M.res.err)
              IN [M EXCEPT !.stack.call = u.call,
                           !.ctl = Front(@),
                           !.res.err = u.err,
                           !.res.unwound = @ + 1]
    ELSE IF M.stack.call = <<>> THEN Panic(M, "exec: call stack is empty")
    ELSE [M EXCEPT !.stack.call[Len(M.stack.call)].pc = @ + 1,
                   !.res = ResNone]

\* One iteration of exec's while loop, or its exit.
exec_step(M, files) ==
    LET a == Last(M.ctl) IN
    IF Len(M.stack.call) <= a.ret_height
    THEN [M EXCEPT !.ctl = Front(@), !.res = ResOk]
    ELSE LET frame == Last(M.stack.call) IN
         IF frame.pc >= Len(frame.function.instrs)
         THEN [M EXCEPT !.stack.call = Front(@),
                        !.stack.dfn = IF frame.dfn /\ @ # <<>> THEN Front(@) ELSE @]
         ELSE LET M1 == run_instr(M, frame.function.instrs[frame.pc + 1], files)
              IN IF M1.res.st \in {"ok", "err"} /\ Len(M1.ctl) = Len(M.ctl)
                 THEN exec_result(M1)
                 ELSE M1

exec_global_instrs(M, instrs) ==
    exec(M, StackFrame(Function(IdMain, instrs, None), 0, FALSE), <<>>)

(***************************************************************************)
(* items, item and binding.                                                *)
(***************************************************************************)
words_have_import(ws) ==
    \E i \in 1..Len(ws) : ws[i].w = "Primitive" /\ ws[i].prim = "Import"

\* can_run with every mode running every line.
can_run_always(m, in_test) == TRUE

can_run_words(m, in_test) ==
    CASE m = "Normal" -> ~in_test
      [] m = "Test" -> in_test
      [] OTHER -> TRUE
can_run_binding(m, in_test) ==
    CASE m \in {"Normal", "Watch"} -> TRUE
      [] OTHER -> in_test

\* compile_words on the machine: [M, ok, instrs].
Compiled(M, r) ==
    IF Failed(r.C)
    THEN [ok |-> FALSE,
          M |-> Raise([M EXCEPT !.new_functions = r.C.new_functions,
                                !.new_dfns = r.C.new_dfns,
                                !.spans = r.C.spans], The(r.C.err))]
    ELSE [ok |-> TRUE, instrs |-> r.instrs,
          M |-> [M EXCEPT !.new_functions = r.C.new_functions,
                          !.new_dfns = r.C.new_dfns,
                          !.spans = r.C.spans]]
Compile(M, ws) ==
    Compiled(M, compile_words(CompileState(M.new_functions, M.new_dfns, M.spans,
                                           M.stack.names, M.globals), ws))

\* binding storing the value of a name that is already bound at its old index.
bind_overwrite(M, name, val) ==
    IF name \in DOMAIN M.stack.names
    THEN [M EXCEPT !.globals[M.stack.names[name] + 1] = val]
    ELSE [M EXCEPT !.globals = Append(@, val),
                   !.stack.names = MapInsert(@, name, Len(M.globals))]

\* binding's last three lines with the index taken after the push.
bind_after_push(M, name, val) ==
    [M EXCEPT !.globals = Append(@, val),
              !.stack.names = MapInsert(@, name, Len(M.globals) + 1)]

\* binding's last three lines: append to globals, bind the name.
bind(M, name, val) ==
    [M EXCEPT !.globals = Append(@, val),
              !.stack.names = MapInsert(@, name, Len(M.globals))]

\* binding with words, entry_globals and entry_scope kept as history.
binding(M, b) ==
    LET c == Compile(M, b.words) IN
    IF ~c.ok THEN c.M
    ELSE IF is_functiony(b.name)
    THEN bind(c.M, b.name, FuncValue(Function(IdNamed(b.name), c.instrs, None)))
    ELSE exec_global_instrs(
             [c.M EXCEPT !.ctl = Append(@, [k |-> "binding", name |-> b.name,
                                            words |-> b.words,
                                            entry_globals |-> M.globals,
                                            entry_scope |-> M.stack])],
             c.instrs)

\* binding after exec_global_instrs, with the bound value left on the stack.
binding_return_peek(M, a) ==
    LET M0 == [M EXCEPT !.ctl = Front(@)] IN
    IF M0.res.st = "err" THEN M0
    ELSE Ok(bind(M0, a.name,
                 IF M0.stack.value = <<>> THEN DefaultValue ELSE Last(M0.stack.value)))

\* binding after exec_global_instrs has returned.
binding_return(M, a) ==
    LET M0 == [M EXCEPT !.ctl = Front(@)] IN
    IF M0.res.st = "err" THEN M0
    ELSE LET val == IF M0.stack.value = <<>> THEN DefaultValue ELSE Last(M0.stack.value)
             M1 == [M0 EXCEPT !.stack.value = IF @ = <<>> THEN @ ELSE Front(@)]
         IN Ok(bind(M1, a.name, val))

item(M, it, in_test) ==
    CASE it.item = "Scoped" ->
           LET M1 == [M EXCEPT !.ctl = Append(@, [k |-> "item_scoped",
                                                  entry_scope |-> M.stack,
                                                  entry_globals |-> M.globals])]
               M2 == in_scope(M1)
           IN [M2 EXCEPT !.ctl = Append(@, [k |-> "items", items |-> it.items,
                                            in_test |-> it.test])]
      [] it.item = "Words" ->
           IF can_run_words(M.mode, in_test) \/ words_have_import(it.words)
           THEN LET c == Compile(M, it.words) IN
                IF ~c.ok THEN c.M ELSE exec_global_instrs(c.M, c.instrs)
           ELSE M
      [] it.item = "Binding" ->
           IF can_run_binding(M.mode, in_test) \/ words_have_import(it.words)
           THEN binding(M, it)
           ELSE M
      [] OTHER -> M

\* item's Scoped arm with the returned scope dropped.
item_scoped_discard(M) ==
    IF M.res.st = "err" THEN [M EXCEPT !.ctl = Front(@)]
    ELSE [M EXCEPT !.ctl = Front(@), !.res = ResOk]

\* item's Scoped arm after in_scope has returned.
item_scoped_return(M) ==
    LET M0 == [M EXCEPT !.ctl = Front(@)] IN
    IF M0.res.st = "err" THEN M0
    ELSE Ok(push_scope_imports(M0, M0.res.scope))

\* items: the `?` on the item that has just returned, then the next item.
items_step(M) ==
    LET a == Last(M.ctl) IN
    IF M.res.st = "err" THEN [M EXCEPT !.ctl = Front(@)]
    ELSE IF a.items = <<>> THEN [M EXCEPT !.ctl = Front(@), !.res = ResOk]
    ELSE item([M EXCEPT !.ctl[Len(M.ctl)].items = Tail(@), !.res = ResNone],
              Head(a.items), a.in_test)

(***************************************************************************)
(* The programs the model loads, and the files an import can read.         *)
(***************************************************************************)
N(n) == WNumber(n)
P(p) == WPrimitive(p)
ImportLine(path) == Words(<<P("Import"), WString(path)>>)

\* S3: Call Pick Flip [f g] cond, f pushing 10 and g pushing 20.
FTen == WFunc("f", <<N(10)>>)
GTwenty == WFunc("g", <<N(20)>>)
IfLine(rest) == Words(<<P("Call"), P("Pick"), P("Flip"), WArray(<<FTen, GTwenty>>)>> \o rest)
\* the same selection between two dfns, written as a strand
DfnIfLine(rest) ==
    Words(<<P("Call"), P("Pick"), P("Flip"),
            WStrand(<<WDfn("d1", <<WIdent("a")>>),
                      WDfn("d2", <<WIdent("b"), WIdent("a")>>)>>)>> \o rest)

Files ==
    [path \in {"A", "B", "C", "D", "E", "U"} |->
       CASE path = "A" -> ParsedFile(<<Binding("x", <<N(5)>>), Binding("F", <<N(6)>>)>>)
         [] path = "B" -> ParsedFile(<<ImportLine("A"), Binding("y", <<N(1)>>)>>)
         [] path = "C" -> ParsedFile(<<ImportLine("D")>>)
         [] path = "D" -> ParsedFile(<<ImportLine("C")>>)
         [] path = "E" -> ParsedFile(<<Binding("z", <<N(2)>>), Binding("y", <<P("Pop")>>)>>)
         [] OTHER -> UnparsableFile]

Programs == <<
    \* If fusion (S3) with conditions 0 and 1, and between two dfns; condition 2
    \* an array over the values already there, an empty array, and an array
    \* whose body removes a value from under it
    ParsedFile(<<IfLine(<<N(0)>>), IfLine(<<N(1)>>), DfnIfLine(<<N(1), N(7), N(8)>>),
                 Words(<<WArray(<<>>), WArray(<<N(1), N(2)>>)>>),
                 Words(<<WArray(<<P("Pop")>>)>>)>>),
    ParsedFile(<<IfLine(<<N(2), N(7)>>)>>),
    \* calling a value that is not a function; a dfn of two arguments called over
    \* three values (S4); a function binding, its call and a value binding; a
    \* function repeated; a dfn whose body calls a dfn of two arguments over
    \* one value
    ParsedFile(<<Words(<<P("Call"), N(5), N(3)>>),
                 Words(<<WDfn("d", <<WIdent("a"), WIdent("b")>>), N(3), N(4), N(5)>>),
                 Binding("F", <<P("Add"), N(1)>>), Binding("x", <<WIdent("F"), N(2)>>),
                 Words(<<WIdent("x"), WDfn("d", <<WIdent("x")>>)>>),
                 Words(<<WModified("Repeat", <<WFunc("r", <<N(1)>>)>>), N(2)>>),
                 Scoped(<<Words(<<WDfn("d", <<WDfn("e", <<WIdent("a"), WIdent("b")>>),
                                              WIdent("a")>>),
                                  N(3)>>)>>,
                        FALSE)>>),
    \* a scoped block between two lines (S6), and a test block; a dfn that
    \* returns a function block naming the dfn's parameter, called afterwards
    ParsedFile(<<Words(<<N(7)>>),
                 Scoped(<<Binding("v", <<>>), Binding("x", <<N(5)>>), Words(<<N(1)>>)>>,
                        FALSE),
                 Scoped(<<Binding("G", <<N(9)>>), Words(<<N(2)>>)>>, TRUE),
                 Words(<<N(8)>>),
                 Words(<<P("Call"), WDfn("d", <<WFunc("f", <<WIdent("a")>>)>>), N(3)>>)>>),
    \* a scoped block that fails to compile, and one that fails at run time
    \* (the unknown identifier is in the body of a dfn)
    ParsedFile(<<Words(<<N(7)>>),
                 Scoped(<<Binding("y", <<WDfn("d", <<WIdent("zz")>>)>>)>>, FALSE)>>),
    ParsedFile(<<Scoped(<<Scoped(<<Words(<<P("Pop")>>)>>, FALSE)>>, FALSE)>>),
    \* imports: twice the same file, a file that imports, a cycle (S5), failures
    \* a binding that imports, and a test block that imports
    ParsedFile(<<ImportLine("A"), ImportLine("B"), ImportLine("A"),
                 Binding("w", <<P("Import"), WString("A")>>),
                 Scoped(<<ImportLine("A")>>, TRUE)>>),
    ParsedFile(<<ImportLine("C")>>),
    ParsedFile(<<Words(<<N(4)>>), Words(<<P("Import"), WString("E"), N(3)>>)>>),
    ParsedFile(<<Words(<<P("Call"), WFunc("h", <<P("Import"), WString("E")>>)>>)>>),
    ParsedFile(<<ImportLine("U")>>),
    \* an error two calls deep, under pending primitives
    ParsedFile(<<Words(<<P("Call"), WFunc("h", <<P("Neg"), P("Call"),
                                                 WFunc("k", <<P("Flip"), N(1)>>)>>)>>)>>),
    \* a function that breaks out of a repeat, with an instruction after the
    \* repeat; a dfn that breaks out of a repeat inside a dfn that then reads
    \* its argument
    ParsedFile(<<Words(<<N(5), P("Repeat"), WFunc("k", <<WIdent("break"), N(1)>>), N(1)>>),
                 Words(<<WDfn("d1", <<WIdent("a"),
                                      WModified("Repeat",
                                          <<WDfn("d2", <<WIdent("break"), N(1)>>)>>),
                                      N(1)>>),
                         N(9)>>)>>),
    \* a single letter that is not bound, outside every dfn body
    ParsedFile(<<Words(<<WIdent("b")>>)>>)
>>

(***************************************************************************)
(* The state machine.                                                      *)
(***************************************************************************)
Machine ==
    [new_functions |-> new_functions, new_dfns |-> new_dfns, globals |-> globals,
     spans |-> spans, stack |-> stack, lower_stacks |-> lower_stacks, mode |-> mode,
     current_imports |-> current_imports, imports |-> imports, hasher |-> hasher,
     ctl |-> ctl, res |-> res]

Becomes(M) ==
    /\ new_functions' = M.new_functions
    /\ new_dfns' = M.new_dfns
    /\ globals' = M.globals
    /\ spans' = M.spans
    /\ stack' = M.stack
    /\ lower_stacks' = M.lower_stacks
    /\ mode' = M.mode
    /\ current_imports' = M.current_imports
    /\ imports' = M.imports
    /\ hasher' = M.hasher
    /\ ctl' = M.ctl
    /\ res' = M.res

\* History of the step being taken: its name, the activation it ran in, the
\* instruction it executed (exec only) and the state it started from.
NextInstr(M) ==
    IF /\ M.ctl # <<>> /\ Last(M.ctl).k = "exec" /\ M.res.st = "none"
       /\ Len(M.stack.call) > Last(M.ctl).ret_height
       /\ Last(M.stack.call).pc < Len(Last(M.stack.call).function.instrs)
    THEN Some(Last(M.stack.call).function.instrs[Last(M.stack.call).pc + 1])
    ELSE None

\* The paths whose load_impl is in progress on the Rust call stack.
Loading(c) == UNION {c[i].path : i \in {j \in 1..Len(c) : c[j].k = "load_impl"}}

History(act) ==
    [act |-> act,
     top |-> IF ctl = <<>> THEN None ELSE Some(Last(ctl)),
     depth |-> Len(ctl),
     loading |-> Loading(ctl),
     instr |-> NextInstr(Machine),
     stack |-> stack, lower_stacks |-> lower_stacks, globals |-> globals,
     imports |-> imports, res |-> res]

TopIs(kind) == ctl # <<>> /\ Last(ctl).k = kind
Alive == res.st # "panic"

Init ==
    /\ new_functions = <<>>
    /\ new_dfns = <<>>
    /\ globals = InitGlobals
    /\ spans = 1
    /\ stack = DefaultScope
    /\ lower_stacks = <<>>
    /\ mode \in {"Normal", "Test", "Watch"}
    /\ current_imports = {}
    /\ imports = <<>>
    /\ hasher \in {"asc", "desc"}
    /\ ctl = <<>>
    /\ res = ResNone
    /\ loads = 0
    /\ pushed = <<>>
    /\ prev = [act |-> "init"]

\* load_str(input)
LoadStr ==
    /\ ctl = <<>> /\ Alive /\ loads < MaxLoads
    /\ \E i \in 1..Len(Programs) :
          Becomes(load_impl([Machine EXCEPT !.res = ResNone], Programs[i], None))
    /\ loads' = loads + 1
    /\ UNCHANGED pushed
    /\ prev' = History("load_str")

\* load_file(path)
LoadFile ==
    /\ ctl = <<>> /\ Alive /\ loads < MaxLoads
    /\ \E path \in DOMAIN Files :
          Becomes(load_impl([Machine EXCEPT !.res = ResNone], Files[path], Some(path)))
    /\ loads' = loads + 1
    /\ UNCHANGED pushed
    /\ prev' = History("load_file")

LoadImplReturn ==
    /\ TopIs("load_impl") /\ Alive
    /\ Becomes(load_impl_return(Machine, Last(ctl)))
    /\ prev' = History("load_impl")
    /\ UNCHANGED <<loads, pushed>>

Items ==
    /\ TopIs("items") /\ Alive
    /\ Becomes(items_step(Machine))
    /\ prev' = History("items")
    /\ UNCHANGED <<loads, pushed>>

ItemScopedReturn ==
    /\ TopIs("item_scoped") /\ Alive
    /\ Becomes(item_scoped_return(Machine))
    /\ prev' = History("item_scoped")
    /\ UNCHANGED <<loads, pushed>>

InScopeReturn ==
    /\ TopIs("in_scope") /\ Alive
    /\ Becomes(in_scope_return(Machine))
    /\ prev' = History("in_scope")
    /\ UNCHANGED <<loads, pushed>>

ImportReturn ==
    /\ TopIs("import") /\ Alive
    /\ Becomes(import_resume(Machine, Last(ctl)))
    /\ pushed' = IF res.st = "err" \/ Last(ctl).path \in DOMAIN pushed THEN pushed
                 ELSE MapInsert(pushed, Last(ctl).path, Last(stack'.value))
    /\ prev' = History("import")
    /\ UNCHANGED loads

BindingReturn ==
    /\ TopIs("binding") /\ Alive
    /\ Becomes(binding_return(Machine, Last(ctl)))
    /\ prev' = History("binding")
    /\ UNCHANGED <<loads, pushed>>

\* One iteration of exec's loop.
Exec ==
    /\ TopIs("exec") /\ res.st = "none"
    /\ Becomes(exec_step(Machine, Files))
    /\ prev' = History("exec")
    /\ UNCHANGED <<loads, pushed>>

\* exec resumes with the result of the call its instruction made.
ExecResume ==
    /\ TopIs("exec") /\ res.st \in {"ok", "err"}
    /\ Becomes(exec_result(Machine))
    /\ prev' = History("exec_resume")
    /\ UNCHANGED <<loads, pushed>>

PrimReturn ==
    /\ TopIs("prim") /\ Alive
    /\ Becomes(prim_return(Machine, Last(ctl)))
    /\ prev' = History("prim")
    /\ UNCHANGED <<loads, pushed>>

Next ==
    \/ LoadStr
    \/ LoadFile
    \/ LoadImplReturn
    \/ Items
    \/ ItemScopedReturn
    \/ InScopeReturn
    \/ ImportReturn
    \/ BindingReturn
    \/ Exec
    \/ ExecResume
    \/ PrimReturn

Spec == Init /\ [][Next]_vars

(***************************************************************************)
(* The compiler on its own: compile_words has pushed an empty buffer and   *)
(* word is called for one word after the other, as words calls it.  prev   *)
(* holds the word just compiled, the buffer before it and the words so far.*)
(***************************************************************************)
CompiledPrims == {"Noop", "Reverse", "First", "Neg", "Flip", "Add", "Dup"}

Compiling ==
    CompileState(new_functions, new_dfns, spans, stack.names, globals)

\* word(w, call) on the current buffer (called is its argument call).
WordStep(w, called) ==
    /\ Len(prev.words) < MaxWords
    /\ LET C == words(Compiling, <<w>>, called)
       IN /\ new_functions' = C.new_functions
          /\ new_dfns' = C.new_dfns
          /\ spans' = C.spans
    /\ prev' = [act |-> "word", word |-> w, call |-> called,
                buffer |-> Last(new_functions),
                words |-> Append(prev.words, [word |-> w, call |-> called])]
    /\ UNCHANGED <<globals, stack, lower_stacks, mode, current_imports, imports,
                   hasher, ctl, res, loads, pushed>>

CompilerInit ==
    /\ new_functions = <<<<>>>>
    /\ new_dfns = <<>>
    /\ globals = InitGlobals
    /\ spans = 1
    /\ stack = DefaultScope
    /\ lower_stacks = <<>>
    /\ mode = "Normal"
    /\ current_imports = {}
    /\ imports = <<>>
    /\ hasher = "asc"
    /\ ctl = <<>>
    /\ res = ResNone
    /\ loads = 0
    /\ pushed = <<>>
    /\ prev = [act |-> "compile_words", words |-> <<>>]

\* Word::Primitive, called
WordPrimitive ==
    /\ prev.act \in {"compile_words", "word"}
    /\ \E p \in CompiledPrims : WordStep(P(p), TRUE)
\* Word::Primitive, not called (in a strand): a Push of the primitive's function
WordPrimitiveValue ==
    /\ prev.act \in {"compile_words", "word"}
    /\ WordStep(P("Neg"), FALSE)
\* Word::Number
WordNumber ==
    /\ prev.act \in {"compile_words", "word"}
    /\ WordStep(N(1), TRUE)

CompilerNext ==
    \/ WordPrimitive
    \/ WordPrimitiveValue
    \/ WordNumber

CompilerSpec == CompilerInit /\ [][CompilerNext]_vars

(***************************************************************************)
(* Properties.  The step just taken is read from prev: the activation it   *)
(* ran in (prev.top), the instruction it executed (prev.instr) and the     *)
(* state it started from.                                                  *)
(***************************************************************************)
Started == The(prev.top)
Stepped(act) == prev.act = act /\ IsSome(prev.top)

\* The step just taken returned from an activation of exec.
ExecReturned ==
    /\ prev.act \in {"exec", "exec_resume"}
    /\ Alive
    /\ Len(ctl) = prev.depth - 1

\* C1: whenever an activation of exec returns, with Ok or with an error, the
\* current scope's call stack has the length it had when that exec was entered.
C1_CallStackBalance ==
    ExecReturned => Len(stack.call) = Started.ret_height

\* a nested exec has returned an error
C1_Witness ==
    ExecReturned /\ res.st = "err" /\ Started.ret_height >= 1

\* The step just taken completed a scoped block: in_scope returned its scope
\* to item's Scoped arm.
ScopedBlockDone == Stepped("item_scoped") /\ prev.res.st = "ok" /\ Alive

IsPrefix(s, t) == Len(s) <= Len(t) /\ SubSeq(t, 1, Len(s)) = s

\* C2, as the specification states it: a scoped block run to successful completion leaves the
\* enclosing scope's value stack, antistack, array stack, dfn stack and names
\* map as they were; only the globals table may have grown.
C2_ScopeTransparent ==
    ScopedBlockDone =>
        /\ stack.value = Started.entry_scope.value
        /\ stack.anti = Started.entry_scope.anti
        /\ stack.array = Started.entry_scope.array
        /\ stack.dfn = Started.entry_scope.dfn
        /\ stack.names = Started.entry_scope.names
        /\ IsPrefix(Started.entry_globals, globals)

\* C2, amended: a scoped block run to successful completion leaves the
\* enclosing scope's antistack, array stack, dfn stack and names map as they
\* were and pushes exactly one value on its value stack, an array with one
\* function for each name of the block's scope; the globals table only grows.
C2_ScopePushesItsNames ==
    ScopedBlockDone =>
        /\ Len(stack.value) = Len(Started.entry_scope.value) + 1
        /\ Front(stack.value) = Started.entry_scope.value
        /\ Last(stack.value).ty = "func"
        /\ Last(stack.value).shape = <<Cardinality(DOMAIN prev.res.scope.names)>>
        /\ stack.anti = Started.entry_scope.anti
        /\ stack.array = Started.entry_scope.array
        /\ stack.dfn = Started.entry_scope.dfn
        /\ stack.names = Started.entry_scope.names
        /\ IsPrefix(Started.entry_globals, globals)

\* a block that bound a name has completed over a non-empty value stack
C2_Witness ==
    /\ ScopedBlockDone
    /\ Started.entry_scope.value # <<>>
    /\ Len(globals) > Len(Started.entry_globals)

\* C3: whenever in_scope returns, also when its closure failed, the current
\* scope is the scope that was current on entry and lower_stacks has the depth
\* it had on entry.
C3_InScopeRestores ==
    (Stepped("in_scope") /\ Alive) =>
        /\ stack = Started.entry_scope
        /\ Len(lower_stacks) = Started.entry_depth

\* The step just taken executed a call (Instr::Call or the Call primitive) of
\* a value that is not a scalar function.
CalledNonFunction ==
    /\ Stepped("exec") /\ IsSome(prev.instr) /\ Alive
    /\ \/ The(prev.instr).op = "Call"
       \/ IsPrimInstr(The(prev.instr), "Call")
    /\ prev.stack.value # <<>>
    /\ ~IsScalarFunc(Last(prev.stack.value))

\* C6: a Call of a value that is not a scalar function leaves the value stack
\* as it was before the instruction and pushes no call frame and no dfn frame.
C6_CallNonFunctionIdentity ==
    CalledNonFunction =>
        /\ stack.value = prev.stack.value
        /\ Len(stack.call) = Len(prev.stack.call)
        /\ stack.dfn = prev.stack.dfn

\* The step just taken executed the Import primitive on the path of a file.
ImportStep ==
    /\ Stepped("exec") /\ IsSome(prev.instr) /\ Alive
    /\ IsPrimInstr(The(prev.instr), "Import")
    /\ prev.stack.value # <<>>
    /\ Last(prev.stack.value).ty = "char"
    /\ Last(prev.stack.value).data[1].s \in DOMAIN Files
ImportedPath == Last(prev.stack.value).data[1].s
IsCycleError ==
    /\ res.st = "err"
    /\ res.err.fmt = "cycle detected importing {}"
    /\ res.err.s = ImportedPath

\* C4: import fails with "cycle detected importing {path}" exactly when a load
\* of that path is in progress on the current chain of loads, and then runs no
\* item of the file; a path whose load has finished, with or without an
\* error, is never reported as a cycle.
C4_CycleIffInProgress ==
    ImportStep =>
        /\ IsCycleError <=> ImportedPath \in prev.loading
        /\ IsCycleError =>
              /\ Len(ctl) = prev.depth + 1 /\ Last(ctl).k = "prim"
              /\ globals = prev.globals
              /\ stack.names = prev.stack.names
              /\ lower_stacks = prev.lower_stacks

\* an import was refused as a cycle, two loads deep
C4_Witness ==
    ImportStep /\ IsCycleError /\ Cardinality(prev.loading) >= 2

\* The step just taken imported a path whose earlier import had succeeded.
ImportedAgain ==
    /\ ImportStep
    /\ ImportedPath \in DOMAIN prev.imports
    /\ ImportedPath \notin prev.loading

\* C5: after a successful import of a path, a later import of it runs none of
\* the file's items (globals and every scope's names are unchanged) and pushes
\* exactly one value, holding the functions the first import pushed.
C5_ImportIdempotent ==
    ImportedAgain =>
        /\ res.st = "ok"
        /\ Len(ctl) = prev.depth + 1 /\ Last(ctl).k = "prim"
        /\ globals = prev.globals
        /\ imports = prev.imports
        /\ stack.names = prev.stack.names
        /\ lower_stacks = prev.lower_stacks
        /\ ImportedPath \in DOMAIN pushed
        /\ stack.value = Append(Front(prev.stack.value), pushed[ImportedPath])

\* a file that binds names was imported a second time
C5_Witness ==
    ImportedAgain /\ pushed[ImportedPath].shape # <<Len(NamedPrims)>>

\* What the compiler makes of the two functions of S3.
TenFn == Function(IdAnonymous("f"), <<Push(Num(10))>>, None)
TwentyFn == Function(IdAnonymous("g"), <<Push(Num(20))>>, None)
IsS3If(instr) ==
    instr.op = "If" /\ {instr.if_true, instr.if_false} = {TenFn, TwentyFn}

\* The step just taken executed the If of S3 on a natural condition.
IfStep ==
    /\ Stepped("exec") /\ IsSome(prev.instr) /\ Alive
    /\ IsS3If(The(prev.instr))
    /\ prev.stack.value # <<>>
    /\ IsNat(Last(prev.stack.value))
IfCondition == Last(prev.stack.value).data[1].n
Invoked(fn) ==
    /\ Len(stack.call) = Len(prev.stack.call) + 1
    /\ Last(stack.call).function = fn
FusedLine ==
    LET instrs == Last(prev.stack.call).function.instrs
    IN /\ \A i \in 1..Len(instrs) : instrs[i].op \in {"Push", "If"}
       /\ Cardinality({i \in 1..Len(instrs) : instrs[i].op = "If"}) = 1
IsOutOfBounds ==
    /\ res.st = "err"
    /\ res.err.fmt = "Index {n} is out of bounds of length 2 (dimension 1) in shape [2]"
    /\ res.err.n = IfCondition

\* The step just taken returned, with Ok, from the function the If of S3
\* called; the condition is the number the line pushed before the If.
IfReturned ==
    /\ ExecReturned /\ res.st = "ok" /\ stack.call # <<>>
    /\ LET fr == Last(stack.call)
       IN /\ fr.pc >= 1 /\ fr.pc < Len(fr.function.instrs)
          /\ IsS3If(fr.function.instrs[fr.pc + 1])
          /\ fr.function.instrs[fr.pc].op = "Push"
LineCondition ==
    LET fr == Last(stack.call) IN fr.function.instrs[fr.pc].val

IfSelects(on_one, on_zero, result_one, result_zero) ==
    /\ IfStep =>
          /\ FusedLine
          /\ IfCondition = 1 => Invoked(on_one)
          /\ IfCondition = 0 => Invoked(on_zero)
          /\ IfCondition >= 2 => IsOutOfBounds
    /\ IfReturned =>
          /\ LineCondition = Num(1) =>
                stack.value = Append(Front(Started.entry_value), Num(result_one))
          /\ LineCondition = Num(0) =>
                stack.value = Append(Front(Started.entry_value), Num(result_zero))

\* C7, as the specification states it: [f g] Flip Pick Call compiles to a single If, which invokes
\* f (written first, pushing 10) for condition 1 and g (pushing 20) for
\* condition 0, and fails out of bounds for condition 2.
C7_IfFirstForOne == IfSelects(TenFn, TwentyFn, 10, 20)

\* C7, amended: [f g] Flip Pick Call compiles to a single If, which invokes
\* g (written second, pushing 20) for condition 1 and f (pushing 10) for
\* condition 0, and fails out of bounds for condition 2.
C7_IfSecondForOne == IfSelects(TwentyFn, TenFn, 20, 10)

\* the line with condition 1 has returned from the function it selected
C7_Witness == IfReturned /\ LineCondition = Num(1)

\* One step of the machine's innermost activation (the step its action takes).
Step(M) ==
    LET a == Last(M.ctl) IN
    CASE a.k = "exec" -> IF M.res.st = "none" THEN exec_step(M, Files) ELSE exec_result(M)
      [] a.k = "prim" -> prim_return(M, a)
      [] a.k = "items" -> items_step(M)
      [] a.k = "load_impl" -> load_impl_return(M, a)
      [] a.k = "item_scoped" -> item_scoped_return(M)
      [] a.k = "in_scope" -> in_scope_return(M)
      [] a.k = "import" -> import_resume(M, a)
      [] a.k = "binding" -> binding_return(M, a)

RECURSIVE RunToEnd(_, _, _)
\* The machine when the activations above depth base have returned.
RunToEnd(M, base, fuel) ==
    IF fuel = 0 \/ M.res.st = "panic" \/ Len(M.ctl) <= base THEN M
    ELSE RunToEnd(Step(M), base, fuel - 1)

\* exec of a function of the given instructions over the value stack vs, from
\* the current state, run to its return.
RunInstrs(instrs, vs) ==
    RunToEnd(exec([Machine EXCEPT !.stack.value = vs, !.res = ResNone],
                  StackFrame(Function(IdMain, instrs, None), 0, FALSE), vs),
             Len(ctl), MaxSteps)
Outcome(M) == [value |-> M.stack.value, st |-> M.res.st]

\* The pre-states of the comparison: the value stack as it is, and the stacks
\* of a condition over up to two operands.
Conditions == {Num(0), Num(1), Num(2), Str("A")}
Operands == {Num(7), Str("A")}
PreStacks ==
    {stack.value} \cup {<<>>} \cup {<<c>> : c \in Conditions}
      \cup {<<u, c>> : u \in Operands, c \in Conditions}
      \cup {<<u, v, c>> : u \in Operands, v \in Operands, c \in Conditions}

\* The sequence the fusion replaces, before its Call, for two functions.
IfPattern(f1, f2) ==
    <<BeginArray, Push(FuncValue(f1)), Push(FuncValue(f2)), EndArray(0),
      Prim("Flip", 0), Prim("Pick", 0)>>
Unfused(f1, f2) == Append(IfPattern(f1, f2), Prim("Call", 0))
Fused(f1, f2) == push_instr(IfPattern(f1, f2), Prim("Call", 0))

\* The state is about to execute a fused If: its two functions, in both orders.
AtIf == IsSome(NextInstr(Machine)) /\ The(NextInstr(Machine)).op = "If"
IfFunctions ==
    LET i == The(NextInstr(Machine))
    IN {<<i.if_true, i.if_false>>, <<i.if_false, i.if_true>>}

SameOutcome(fused, unfused) == fused.st \in {"ok", "err"} /\ fused = unfused

C9_TraceComplete ==
    (ExecReturned /\ res.st = "err") =>
        /\ res.err.traced
        /\ res.err.trace = Flatten(Take(res.expect, res.unwound))

\* The step just taken entered the body of a dfn.
DfnEntered ==
    /\ prev.act # "init" /\ Len(ctl) > prev.depth /\ TopIs("exec") /\ res.st = "none"
    /\ Len(stack.call) = Last(ctl).ret_height + 1
    /\ Last(stack.call).dfn /\ Last(stack.call).pc = 0
\* The step just taken executed a DfnVal in the body of a dfn.
DfnValStep ==
    /\ Stepped("exec") /\ IsSome(prev.instr)
    /\ The(prev.instr).op = "DfnVal"
    /\ Last(prev.stack.call).dfn
\* The step just taken popped the frame of a dfn whose body has finished.
DfnFinished ==
    /\ Stepped("exec") /\ Alive /\ Len(ctl) = prev.depth
    /\ prev.instr = None /\ prev.res.st = "none"
    /\ Len(stack.call) = Len(prev.stack.call) - 1
    /\ Last(prev.stack.call).dfn
\* The value i-th from the top (0 the top) under the function, when the call began.
FormerArg(entry_value, i) == entry_value[Len(entry_value) - 1 - i]

\* C10: calling a dfn of n arguments over at least n values removes the
\* function and those n values only; in its body DfnVal(i) pushes the value
\* that was i-th from the top at the call; when the body finishes its dfn
\* frame is gone.
C10_DfnArguments ==
    /\ DfnEntered =>
          LET e == Last(ctl).entry_value
              n == The(Last(stack.call).function.dfn_args)
          IN /\ stack.value = Take(e, Len(e) - 1 - n)
             /\ stack.dfn # <<>>
             /\ Last(stack.dfn).args = [i \in 1..n |-> FormerArg(e, i - 1)]
    /\ DfnValStep =>
          /\ Alive
          /\ stack.value = Append(prev.stack.value,
                                   FormerArg(Started.entry_value, The(prev.instr).n))
    /\ DfnFinished =>
          stack.dfn = Take(prev.stack.dfn, Started.entry_dfn - 1)

\* The step just taken executed a call (Instr::Call or the Call primitive) of
\* a dfn over fewer values than its dfn_args.
DfnShortCall ==
    /\ Stepped("exec") /\ IsSome(prev.instr) /\ Alive
    /\ \/ The(prev.instr).op = "Call"
       \/ IsPrimInstr(The(prev.instr), "Call")
    /\ prev.stack.value # <<>>
    /\ IsScalarFunc(Last(prev.stack.value))
    /\ IsSome(IntoScalar(Last(prev.stack.value)).dfn_args)
    /\ Len(prev.stack.value) - 1 < The(IntoScalar(Last(prev.stack.value)).dfn_args)

\* C11: calling a dfn of n arguments over fewer than n values fails with
\* "not enough arguments for dfn of n values", pushes no call frame and no dfn
\* frame, and leaves every value that was below the function on the stack.
C11_NotEnoughArguments ==
    DfnShortCall =>
        /\ res.st = "err"
        /\ res.err.fmt = "not enough arguments for dfn of {n} values"
        /\ res.err.n = The(IntoScalar(Last(prev.stack.value)).dfn_args)
        /\ Len(stack.call) <= Len(prev.stack.call)
        /\ stack.dfn = prev.stack.dfn
        /\ stack.value = Front(prev.stack.value)

\* a dfn of two arguments was called over one value
C11_Witness ==
    /\ DfnShortCall
    /\ Len(prev.stack.value) = 2
    /\ IntoScalar(Last(prev.stack.value)).dfn_args = Some(2)

\* The names of a names map that the user bound.
UserNames(names) == DOMAIN names \ DOMAIN DefaultNames

\* The step just taken entered in_scope (for a scoped block or an import).
InScopeEntered ==
    /\ prev.act # "init" /\ Alive
    /\ \E i \in (prev.depth + 1)..Len(ctl) : ctl[i].k = "in_scope"
\* The step just taken returned Ok from in_scope.
InScopeDone == Stepped("in_scope") /\ prev.res.st = "ok" /\ Alive
\* The names bound only inside the scope that has just ended.
BoundInside == DOMAIN prev.stack.names \ DOMAIN Started.entry_scope.names

\* C12: a scoped block or an imported file starts in a scope with empty
\* stacks and the primitive names only, so no user binding of the enclosing
\* scope is visible in it; when it ends, a name bound only inside it is absent
\* from the enclosing scope's names map and its value is still in the globals
\* table, at the index the binding gave it; when it fails, the enclosing scope
\* (left on lower_stacks) has the names map it had.
C12_ScopeIsolation ==
    /\ InScopeEntered =>
          /\ stack = DefaultScope
          /\ UserNames(stack.names) = {}
          /\ lower_stacks # <<>>
          /\ Last(lower_stacks).names = prev.stack.names
    /\ InScopeDone =>
          /\ stack.names = Started.entry_scope.names
          /\ \A name \in BoundInside :
                /\ name \notin DOMAIN stack.names
                /\ prev.stack.names[name] >= Started.entry_globals
                /\ prev.stack.names[name] < Len(globals)
                /\ Global(globals, prev.stack.names[name])
                      = Global(prev.globals, prev.stack.names[name])
    /\ (Stepped("in_scope") /\ prev.res.st = "err" /\ Alive) =>
          /\ Len(lower_stacks) > Started.entry_depth
          /\ lower_stacks[Started.entry_depth + 1].names = Started.entry_scope.names

\* a block or file that bound a name has ended in an enclosing scope that
\* has user bindings of its own
C12_Witness ==
    /\ InScopeDone
    /\ BoundInside # {}
    /\ UserNames(Started.entry_scope.names) # {}

\* The step just taken was items taking up a line of the given kind (a Words
\* or a Binding item); TheLine is that line, InTest the in_test it was given.
ItemStep(kind) ==
    /\ Stepped("items") /\ prev.res.st # "err"
    /\ Started.items # <<>>
    /\ Head(Started.items).item = kind
TheLine == Head(Started.items)
InTest == Started.in_test
HasImport == words_have_import(TheLine.words)
\* The line was executed: it was compiled and failed, or its instructions
\* were handed to exec, or (a function binding) it was added to globals.  A
\* line that is skipped changes nothing.
Executed ==
    \/ res.st = "err"
    \/ Len(ctl) > prev.depth
    \/ Len(globals) > Len(prev.globals)
Skipped ==
    /\ res.st = "none" /\ Len(ctl) = prev.depth
    /\ globals = prev.globals /\ stack = prev.stack
RanIff(cond) == (Executed <=> cond) /\ (Skipped <=> ~cond)

Rebound ==
    IF prev.act = "init" \/ Len(lower_stacks) # Len(prev.lower_stacks) THEN {}
    ELSE {name \in DOMAIN prev.stack.names \cap DOMAIN stack.names :
            stack.names[name] # prev.stack.names[name]}

\* C15: no step of a load, a binding, a scoped block, an import or a failing
\* operation shortens the globals table or changes an entry it holds; a step
\* that rebinds a name appends the new value and leaves the old entry as it was.
C15_GlobalsAppendOnly ==
    prev.act # "init" =>
        /\ IsPrefix(prev.globals, globals)
        /\ \A name \in Rebound :
              /\ Len(globals) = Len(prev.globals) + 1
              /\ stack.names[name] = Len(prev.globals)
              /\ Global(globals, prev.stack.names[name])
                    = Global(prev.globals, prev.stack.names[name])

\* a name bound by an earlier load was bound again
C15_Witness == Rebound # {} /\ Alive

\* The buffer the compiler is writing.
Buffer == Last(new_functions)
\* The i-th word compiled was the primitive p, called (push_instr was given
\* Instr::Prim(p, span)).
EmittedPrim(i, p) ==
    /\ i <= Len(prev.words)
    /\ prev.words[i] = [word |-> P(p), call |-> TRUE]
SameArity(p) == PrimArgs(p) = PrimOutputs(p)

\* C16: after push_instr is given, on an empty buffer, a primitive p and then
\* a primitive q, both of equal input and output arity and q the declared
\* inverse of p, the buffer is empty.
C16_InversePairCancels ==
    \A p \in CompiledPrims : \A q \in CompiledPrims :
        (/\ prev.act = "word" /\ Len(prev.words) = 2
         /\ EmittedPrim(1, p) /\ EmittedPrim(2, q)
         /\ SameArity(p) /\ SameArity(q)
         /\ PrimInverse(p) = Some(q)) => Buffer = <<>>

\* Flip, of two inputs and two outputs, was emitted twice
C16_Witness ==
    /\ prev.act = "word" /\ Len(prev.words) = 2
    /\ EmittedPrim(1, "Flip") /\ EmittedPrim(2, "Flip")
    /\ prev.buffer = <<Prim("Flip", 1)>>

\* The frames of a scope's call stack whose dfn flag is set.
DfnFlagged(scope) == {i \in 1..Len(scope.call) : scope.call[i].dfn}
InLockStep(scope) == Len(scope.dfn) = Cardinality(DfnFlagged(scope))

\* C17: between two instructions, also after exec has returned an error and
\* after a primitive has caught a Break, the dfn stack of the current scope
\* and of every saved scope has one entry for each frame of that scope's call
\* stack whose dfn flag is set.
C17_DfnLockStep ==
    Alive =>
        /\ InLockStep(stack)
        /\ \A i \in 1..Len(lower_stacks) : InLockStep(lower_stacks[i])

\* The step just taken gave push_instr a Noop primitive.
NoopEmitted ==
    /\ prev.act = "word" /\ prev.word = P("Noop") /\ prev.call

\* C18: push_instr given a Noop primitive leaves the buffer as it was,
\* whether the buffer was empty or ended in a Push or in another primitive.
C18_NoopElided == NoopEmitted => Buffer = prev.buffer

\* The step just taken executed an If on a natural condition.
AnyIfStep ==
    /\ Stepped("exec") /\ IsSome(prev.instr) /\ Alive
    /\ The(prev.instr).op = "If"
    /\ prev.stack.value # <<>>
    /\ IsNat(Last(prev.stack.value))
\* The values under the condition.
UnderCondition == Front(prev.stack.value)
\* The step just taken called fn: it pushed one frame, for fn at pc 0, and
\* took from the values under the condition the arguments of a dfn only.
CalledOnly(fn) ==
    LET n == IF IsSome(fn.dfn_args) THEN The(fn.dfn_args) ELSE 0
    IN IF Len(UnderCondition) < n
       THEN /\ res.st = "err"
            /\ res.err.fmt = "not enough arguments for dfn of {n} values"
            /\ stack.value = UnderCondition
       ELSE /\ res.st = "none"
            /\ Len(ctl) = prev.depth + 1 /\ TopIs("exec")
            /\ Invoked(fn)
            /\ Last(stack.call).pc = 0
            /\ Front(stack.call) = prev.stack.call
            /\ stack.value = Take(UnderCondition, Len(UnderCondition) - n)

\* C19: If(then_fn, else_fn) pops one value, the condition; for 0 it calls
\* else_fn and nothing else, for 1 it calls then_fn and nothing else, and for
\* any other natural number n it fails with "Index n is out of bounds of
\* length 2 (dimension 1) in shape [2]" and calls neither.
C19_IfSelectsByCondition ==
    AnyIfStep =>
        /\ IfCondition = 0 => CalledOnly(The(prev.instr).if_false)
        /\ IfCondition = 1 => CalledOnly(The(prev.instr).if_true)
        /\ IfCondition >= 2 =>
              /\ IsOutOfBounds
              /\ stack.value = UnderCondition
              /\ Len(stack.call) <= Len(prev.stack.call)
              /\ stack.dfn = prev.stack.dfn
              /\ Len(ctl) < prev.depth

\* an If of two different functions has called its else function for 0
C19_Witness ==
    /\ AnyIfStep /\ IfCondition = 0
    /\ The(prev.instr).if_true # The(prev.instr).if_false
    /\ Invoked(The(prev.instr).if_false)

\* The step just taken executed an EndArray with a recorded depth to pop.
EndArrayStep ==
    /\ Stepped("exec") /\ IsSome(prev.instr) /\ Alive
    /\ The(prev.instr).op = "EndArray"
    /\ prev.stack.array # <<>>
\* The depth BeginArray recorded last, and the values pushed above it since.
RecordedDepth == Last(prev.stack.array)
PushedSince == Drop(prev.stack.value, RecordedDepth)
Combinable == from_row_values(Rev(PushedSince)).ok

BindingReturned == Stepped("binding") /\ Alive
OwnWords == ~words_have_import(Started.words)
BoundAt(name, idx, before) ==
    /\ Len(globals) = Len(before.globals) + 1
    /\ IsPrefix(before.globals, globals)
    /\ idx = Len(before.globals)
    /\ stack.names = MapInsert(before.stack.names, name, idx)
    /\ lower_stacks = before.lower_stacks
    /\ imports = before.imports
NothingBound(before) ==
    /\ globals = before.globals
    /\ stack.names = before.stack.names

LineCompiled ==
    /\ ItemStep("Words") \/ ItemStep("Binding")
    /\ Executed /\ Alive
UnknownIdentifier == res.st = "err" /\ res.err.fmt = "unknown identifier {}"
LineInstrs ==
    IF TheLine.item = "Binding" /\ is_functiony(TheLine.name)
    THEN IntoScalar(Last(globals)).instrs
    ELSE Last(stack.call).function.instrs
IsLetter(w) ==
    /\ w.w = "Ident" /\ IsAsciiLowercaseLetter(w.name)
    /\ from_multiname(w.name) = None
BoundLetter(w) == IsLetter(w) /\ w.name \in DOMAIN prev.stack.names
UnboundLetter(w) == IsLetter(w) /\ w.name \notin DOMAIN prev.stack.names
\* The compiled line pushes the dfn w with the body instrs.
PushesDfn(w, instrs) ==
    \E j \in 1..Len(LineInstrs) :
       /\ LineInstrs[j].op = "Push"
       /\ IsScalarFunc(LineInstrs[j].val)
       /\ IntoScalar(LineInstrs[j].val).id = w.id
       /\ IsSome(IntoScalar(LineInstrs[j].val).dfn_args)
       /\ IntoScalar(LineInstrs[j].val).instrs = instrs

\* C22: a single lowercase letter is looked up in the names of the current
\* scope first and is a dfn parameter only inside a dfn body: a line that
\* names an unbound letter outside every dfn body fails to compile with
\* "unknown identifier"; a bound letter in a dfn body compiles to the Push of
\* its global; unbound letters in a dfn body compile to DfnVal(letter - 'a').
C22_IdentOrder ==
    LineCompiled =>
      /\ (\E i \in 1..Len(TheLine.words) : UnboundLetter(TheLine.words[i]))
            => UnknownIdentifier
      /\ res.st # "err" =>
            \A i \in 1..Len(TheLine.words) :
               LET w == TheLine.words[i] IN
               (w.w = "Dfn" /\ w.body # <<>>) =>
                 /\ (Len(w.body) = 1 /\ BoundLetter(w.body[1])
                       /\ ~IsScalarFunc(Global(prev.globals,
                                               prev.stack.names[w.body[1].name])))
                      => PushesDfn(w, <<Push(Global(prev.globals,
                                                    prev.stack.names[w.body[1].name]))>>)
                 /\ (\A k \in 1..Len(w.body) : UnboundLetter(w.body[k]))
                      => PushesDfn(w, [k \in 1..Len(w.body) |->
                                        DfnVal(LetterIndex(
                                            w.body[Len(w.body) + 1 - k].name))])

\* The call stack of the scope the step started in, before and after the step
\* (a step that enters a scope saves it on lower_stacks, a step that leaves a
\* scope takes it from there).
CallBefore ==
    IF Len(lower_stacks) < Len(prev.lower_stacks)
    THEN Last(prev.lower_stacks).call ELSE prev.stack.call
CallAfter ==
    IF Len(lower_stacks) > Len(prev.lower_stacks)
    THEN Last(lower_stacks).call ELSE stack.call
Common == IF Len(CallBefore) < Len(CallAfter) THEN Len(CallBefore) ELSE Len(CallAfter)
\* The step moved the pc of frame i.
Advanced(i) == CallAfter[i].pc # CallBefore[i].pc
\* The step was exec completing the instruction at the pc of its frame: the
\* instruction itself, or the call it made and that has returned Ok.
Completed(i) ==
    /\ i = Len(CallBefore) /\ i = Len(CallAfter)
    /\ Len(lower_stacks) = Len(prev.lower_stacks)
    /\ CallAfter[i].pc = CallBefore[i].pc + 1
    /\ CallBefore[i].pc < Len(CallBefore[i].function.instrs)
    /\ \/ /\ prev.act = "exec" /\ res.st = "none"
          /\ prev.instr = Some(CallBefore[i].function.instrs[CallBefore[i].pc + 1])
       \/ /\ prev.act = "exec_resume" /\ prev.res.st = "ok"
          /\ i = Started.ret_height + 1
\* Every frame keeps its function; a pc moves by one, in the top frame, when
\* exec completes the instruction there; an instruction that exec ran is
\* completed, or has made a call that is pending, or has failed.
PcOrder ==
    (prev.act # "init" /\ Alive) =>
      /\ \A i \in 1..Common :
            /\ CallAfter[i].function = CallBefore[i].function
            /\ Advanced(i) => Completed(i)
      /\ (prev.act = "exec" /\ IsSome(prev.instr)) =>
            \/ Completed(Len(prev.stack.call))
            \/ Len(ctl) # prev.depth
      /\ (prev.act = "exec_resume" /\ prev.res.st = "ok") =>
            Completed(Len(prev.stack.call))
      /\ (prev.act = "exec_resume" /\ prev.res.st = "err") =>
            /\ Len(ctl) = prev.depth - 1 /\ res.st = "err"
            /\ Len(stack.call) <= Started.ret_height
\* exec resumed after the call its instruction made had been ended by a break.
ResumedAfterBreak ==
    /\ prev.act = "exec_resume" /\ prev.res = ResCaught

\* C23, as the specification states it: the pc of a frame moves in steps of
\* one, only while the frame is on top, and the caller goes on to its next
\* instruction only after the called frame was popped on completion, never
\* after the called frame failed.
C23_PcOrderNeverAfterFailure ==
    /\ PcOrder
    /\ ~ResumedAfterBreak

\* C23 (amended): as above, except that the caller does go on after a called
\* frame that failed with a break, when the pending primitive of the caller
\* (Repeat) caught the break with call_catch_break.
C23_PcOrder ==
    /\ PcOrder
    /\ ResumedAfterBreak =>
          /\ IsPrimInstr(CallBefore[Len(CallBefore)].function.instrs[
                             CallBefore[Len(CallBefore)].pc + 1], "Repeat")
          /\ Completed(Len(CallBefore))

\* the caller of Repeat went on to its next instruction after the function
\* Repeat called had been ended by a break
C23_Witness ==
    /\ ResumedAfterBreak /\ Alive
    /\ Completed(Len(CallBefore))
    /\ CallAfter[Len(CallAfter)].pc < Len(CallAfter[Len(CallAfter)].function.instrs)

\* Every name of the map is bound to an index into globals.
NamesInGlobals(names) ==
    \A name \in DOMAIN names : names[name] \in 0..(Len(globals) - 1)
\* The names of the primitives are bound to the functions of the primitives,
\* which are the first entries of globals.
PrimitivePrefix(names) ==
    \A i \in 1..Len(NamedPrims) :
       /\ PrimName(NamedPrims[i]) \in DOMAIN names
       /\ names[PrimName(NamedPrims[i])] = i - 1
       /\ Global(globals, i - 1) = FuncValue(PrimFunction(NamedPrims[i]))

\* C24: in every state every name of the current scope, of every saved
\* enclosing scope and of every cached import scope is bound to an index
\* smaller than the length of globals; in the initial state the names are
\* those of the primitives, bound to the pre-populated prefix of globals.
C24_NamesInGlobals ==
    /\ NamesInGlobals(stack.names)
    /\ \A i \in 1..Len(lower_stacks) : NamesInGlobals(lower_stacks[i].names)
    /\ \A path \in DOMAIN imports : NamesInGlobals(imports[path].names)
    /\ prev.act = "init" =>
          /\ PrimitivePrefix(stack.names)
          /\ Len(globals) = Len(NamedPrims)
          /\ UserNames(stack.names) = {}

\* names were bound in a saved enclosing scope, in the current scope and in
\* the scope of a cached import
C24_Witness ==
    /\ lower_stacks # <<>> /\ UserNames(Last(lower_stacks).names) # {}
    /\ UserNames(stack.names) # {}
    /\ \E path \in DOMAIN imports : UserNames(imports[path].names) # {}
    /\ Len(globals) > Len(NamedPrims) + 2

\* The step just taken was exec running a DfnVal instruction.
DfnValRun ==
    /\ Stepped("exec") /\ IsSome(prev.instr)
    /\ The(prev.instr).op = "DfnVal"

\* C25: whenever a DfnVal(i) is executed the dfn stack of the current scope
\* is not empty and i is smaller than the number of arguments of the
\* innermost dfn frame, also for a function block of a dfn body that names
\* the dfn's parameters and is called after the dfn has returned.
C25_DfnValInRange ==
    DfnValRun =>
      /\ prev.stack.dfn # <<>>
      /\ The(prev.instr).n < Len(Last(prev.stack.dfn).args)
      /\ Alive

====
